---- MODULE Spec2Model ----
(***************************************************************************)
(* A model of swil's X11 backend (src/src/platform/xcb.rs): the creation   *)
(* sequence of Window::new, the mutators, size(), the blocking event loop  *)
(* with its translation of raw X11 events, and the Drop implementation.    *)
(* The protocol connection (x11rb's XCBConnection) is the environment:     *)
(* every call made on it is appended to `log` with its outcome, and each   *)
(* fallible call may succeed or fail.                                      *)
(***************************************************************************)
EXTENDS Integers, Sequences, FiniteSets, TLC

VARIABLES
    pc,            \* position of the calling program
    config,        \* the WindowConfig passed to Window::new
    env,           \* what the X server reports: Xft.dpi, screens, atoms, ids
    handle,        \* TRUE while the caller owns a Window value
    window,        \* Window.window
    scale_factor,  \* Window.scale_factor, as a fraction [n, d]
    atoms,         \* Window.atoms
    size,          \* Window.size (the Cell<PhysicalSize>)
    result,        \* what the last API call returned
    log,           \* calls made on the connection by the API call in progress
                   \* (or the last one completed), in order, with outcome
    destroys,      \* number of destroy_window requests issued so far
    queue,         \* raw events pending on the connection
    sent,          \* number of raw events the server has sent
    ops,           \* number of API calls made on the Window
    received,      \* raw events returned by wait_for_event, in order
    delivered,     \* handler invocations, in order
    event,         \* event_loop's local `event`
    exit           \* event_loop's local `exit`

vars == <<pc, config, env, handle, window, scale_factor, atoms, size, result,
          log, destroys, queue, sent, ops, received, delivered, event, exit>>

winVars == <<window, scale_factor, atoms, size>>
loopVars == <<queue, sent, received, delivered, event, exit>>

----------------------------------------------------------------------------
(* Bounds of the model *)

\* raw events the server sends during one run
MaxEvents == 2
\* API calls the caller makes on the Window before dropping it
MaxOps == 2

----------------------------------------------------------------------------
(* Values *)

None == [tag |-> "None"]
Some(v) == [tag |-> "Some", val |-> v]

Ok(v) == [tag |-> "Ok", val |-> v]
Err(kind) == [tag |-> "Err", kind |-> kind]
NoResult == [tag |-> "NoResult"]

\* 2^16: a u32 is held as its two 16-bit halves, [hi, lo], since the values
\* of the upper half of its range exceed the model checker's integers
U16 == 65536

MkU32(hi, lo) == [hi |-> hi, lo |-> lo]
\* the u32 of a natural number below 2^31
U32Of(n) == MkU32(n \div U16, n % U16)
U32Max == MkU32(U16 - 1, U16 - 1)

\* `x as u32` for a u16 x: zero-extends
U16AsU32(x) == MkU32(0, x)
\* `x as u32` for an i16 x: sign-extends, then reinterprets
I16AsU32(x) == IF x < 0 THEN MkU32(U16 - 1, x + U16) ELSE MkU32(0, x)
\* `x as u16` for a u32 x: truncates
U32AsU16(x) == x.lo
\* `x as i32` for a u32 x: two's complement reinterpretation
U32AsI32(x) ==
    IF 2 * x.hi >= U16 THEN (x.hi - U16) * U16 + x.lo ELSE x.hi * U16 + x.lo
\* `f as u32` for a finite float with the integer value x: negatives give 0
F32AsU32(x) == IF x < 0 THEN U32Of(0) ELSE U32Of(x)

PhysicalSize(w, h) == [width |-> w, height |-> h]
LogicalSize(w, h) == [width |-> w, height |-> h]
Physical(s) == [tag |-> "Physical", val |-> s]
Logical(s) == [tag |-> "Logical", val |-> s]

Frac(n, d) == [n |-> n, d |-> d]

Pressed == "Pressed"
Released == "Released"

----------------------------------------------------------------------------
(* Geometry: src/src/dpi.rs *)

\* f32::round of the fraction a/b (b > 0): to nearest, halves away from zero
Round(a, b) ==
    IF a >= 0 THEN (2 * a + b) \div (2 * b)
    ELSE 0 - ((2 * (0 - a) + b) \div (2 * b))

\* FromLogicalDim without the `.round()`: the cast truncates
FromLogicalDimNoRound(l, sf) ==
    IF sf.d = 0
    THEN (IF l > 0 /\ sf.n > 0 THEN U32Max ELSE U32Of(0))
    ELSE F32AsU32((l * sf.n) \div sf.d)

\* PhysicalSize::from_logical: round(logical * scale_factor) as u32.
\* A scale factor with d = 0 stands for a non-finite product; the cast
\* saturates (n > 0 and a positive dimension) or yields 0.
FromLogicalDim(l, sf) ==
    IF sf.d = 0
    THEN (IF l > 0 /\ sf.n > 0 THEN U32Max ELSE U32Of(0))
    ELSE F32AsU32(Round(l * sf.n, sf.d))

PhysicalSizeFromLogical(s, sf) ==
    PhysicalSize(FromLogicalDim(s.width, sf), FromLogicalDim(s.height, sf))

\* LogicalSize::to_physical
LogicalSizeToPhysical(s, sf) == PhysicalSizeFromLogical(s, sf)

----------------------------------------------------------------------------
(* Scale factor: Window::new, lines 68-96 *)

\* the sanity bound of line 90, and the largest quantized step it accepts
MaxFactor == 20
MaxStep == MaxFactor * 12

\* p/q <= r/s for naturals p, r and positive q, s, by comparing the continued
\* fractions, so that no product leaves the range of the integers
RECURSIVE LeqFrac(_, _, _, _)
LeqFrac(p, q, r, s) ==
    IF p \div q # r \div s THEN p \div q < r \div s
    ELSE IF p % q = 0 THEN TRUE
    ELSE IF r % s = 0 THEN FALSE
    ELSE LeqFrac(s, r % s, q, p % q)

\* round(ppmm * (12.0 * 25.4 / 96.0)) with ppmm = sqrt(px / mm), px and mm the
\* products of the screen's pixel and millimetre dimensions (both positive),
\* capped at MaxStep + 1. In exact arithmetic it is the largest k with
\* k - 1/2 <= (127/40) * sqrt(px / mm), that is
\* (20 * (2k - 1))^2 * wmm * hmm <= 127^2 * wpx * hpx.
QuantizedStep(screen) ==
    LET fits(k) ==
            \/ k = 0
            \/ LeqFrac(20 * (2 * k - 1) * screen.width_in_millimeters,
                       127 * screen.width_in_pixels,
                       127 * screen.height_in_pixels,
                       20 * (2 * k - 1) * screen.height_in_millimeters)
    IN  CHOOSE k \in 0..(MaxStep + 1) :
            /\ fits(k)
            /\ (k = MaxStep + 1 \/ ~fits(k + 1))

\* ScreenScale without the `dpi_factor <= 20.0` test of line 90
ScreenScaleNoSanity(screen) ==
    IF screen.width_in_millimeters = 0 \/ screen.height_in_millimeters = 0
    THEN Frac(12, 12)
    ELSE LET k == IF screen.width_in_pixels = 0 \/ screen.height_in_pixels = 0
                  THEN 0 ELSE QuantizedStep(screen)
         IN  Frac(IF k < 12 THEN 12 ELSE k, 12)

\* lines 79-95: the factor computed from the screen dimensions. A zero
\* millimetre dimension makes the quotient infinite or NaN: NaN.max(1.0) is
\* 1.0 and an infinite factor exceeds 20.0, so both give 1.0. A zero pixel
\* dimension over positive millimetres gives ppmm = 0.
ScreenScale(screen) ==
    IF screen.width_in_millimeters = 0 \/ screen.height_in_millimeters = 0
    THEN Frac(12, 12)
    ELSE LET k == IF screen.width_in_pixels = 0 \/ screen.height_in_pixels = 0
                  THEN 0 ELSE QuantizedStep(screen)
             dpi_factor == IF k < 12 THEN 12 ELSE k   \* .max(1.0)
         IN  IF dpi_factor <= MaxStep THEN Frac(dpi_factor, 12)
             ELSE Frac(12, 12)

\* ResolveScaleFactor without the `Some(dpi)` arm
ResolveScaleFactorScreenOnly(xft_dpi, screen) == ScreenScale(screen)

\* lines 76-96
ResolveScaleFactor(xft_dpi, screen) ==
    IF xft_dpi.tag = "Some" THEN Frac(xft_dpi.val, 96)
    ELSE ScreenScale(screen)

\* lines 98-102
InitialSize(cfg, sf) ==
    IF cfg.size.tag = "Logical" THEN LogicalSizeToPhysical(cfg.size.val, sf)
    ELSE cfg.size.val

----------------------------------------------------------------------------
(* Event translation: Window::event_loop lines 262-309, map_button_event *)

MouseInput(button, state) ==
    [tag |-> "MouseInput", button |-> button, state |-> state]
MouseScroll(dir) == [tag |-> "MouseScroll", dir |-> dir]
Button(name) == [tag |-> name]
OtherButton(code) == [tag |-> "Other", code |-> code]

\* map_button_event without the `if let ButtonState::Pressed = state` tests
map_button_eventAnyState(button, state) ==
    CASE button = 1 -> Some(MouseInput(Button("Left"), state))
      [] button = 2 -> Some(MouseInput(Button("Middle"), state))
      [] button = 3 -> Some(MouseInput(Button("Right"), state))
      [] button = 4 -> Some(MouseScroll("Up"))
      [] button = 5 -> Some(MouseScroll("Down"))
      [] button = 6 -> Some(MouseScroll("Left"))
      [] button = 7 -> Some(MouseScroll("Right"))
      [] OTHER -> Some(MouseInput(OtherButton(button), state))

\* map_button_event with an arm that drops button code 0
map_button_eventNoZero(button, state) ==
    CASE button = 0 -> None
      [] button = 1 -> Some(MouseInput(Button("Left"), state))
      [] button = 2 -> Some(MouseInput(Button("Middle"), state))
      [] button = 3 -> Some(MouseInput(Button("Right"), state))
      [] button = 4 -> IF state = Pressed THEN Some(MouseScroll("Up")) ELSE None
      [] button = 5 -> IF state = Pressed THEN Some(MouseScroll("Down")) ELSE None
      [] button = 6 -> IF state = Pressed THEN Some(MouseScroll("Left")) ELSE None
      [] button = 7 -> IF state = Pressed THEN Some(MouseScroll("Right")) ELSE None
      [] OTHER -> Some(MouseInput(OtherButton(button), state))

\* lines 329-365
map_button_event(button, state) ==
    CASE button = 1 -> Some(MouseInput(Button("Left"), state))
      [] button = 2 -> Some(MouseInput(Button("Middle"), state))
      [] button = 3 -> Some(MouseInput(Button("Right"), state))
      [] button = 4 -> IF state = Pressed THEN Some(MouseScroll("Up")) ELSE None
      [] button = 5 -> IF state = Pressed THEN Some(MouseScroll("Down")) ELSE None
      [] button = 6 -> IF state = Pressed THEN Some(MouseScroll("Left")) ELSE None
      [] button = 7 -> IF state = Pressed THEN Some(MouseScroll("Right")) ELSE None
      [] OTHER -> Some(MouseInput(OtherButton(button), state))

KeyboardInput(code, state) ==
    [tag |-> "KeyboardInput", code |-> code, state |-> state, text |-> None]

Resized(s) == [tag |-> "Resized", size |-> s]
CloseRequested == [tag |-> "CloseRequested"]

\* lines 264: the size a resize-request carries (u16 fields widened to u32)
ResizeSize(x11) == PhysicalSize(U16AsU32(x11.width), U16AsU32(x11.height))

\* TranslateClientMessage without the format test
TranslateClientMessageAnyFormat(x11, a) ==
    IF x11.data0 = a.WM_DELETE_WINDOW THEN Some(CloseRequested) ELSE None

\* lines 270-279
TranslateClientMessage(x11, a) ==
    IF x11.format = 32 /\ x11.data0 = a.WM_DELETE_WINDOW
    THEN Some(CloseRequested)
    ELSE None

\* the match of lines 262-309: the Option<Event> a raw event translates to
Translate(x11, a) ==
    CASE x11.type = "ResizeRequest" -> Some(Resized(ResizeSize(x11)))
      [] x11.type = "ClientMessage" -> TranslateClientMessage(x11, a)
      [] x11.type = "FocusIn" -> Some([tag |-> "FocusChanged", focused |-> TRUE])
      [] x11.type = "FocusOut" -> Some([tag |-> "FocusChanged", focused |-> FALSE])
      [] x11.type = "KeyPress" -> Some(KeyboardInput(x11.detail, Pressed))
      [] x11.type = "KeyRelease" -> Some(KeyboardInput(x11.detail, Released))
      [] x11.type = "MotionNotify" ->
            Some([tag |-> "CursorMoved",
                  position |-> [x |-> I16AsU32(x11.event_x), y |-> I16AsU32(x11.event_y)]])
      [] x11.type = "LeaveNotify" -> Some([tag |-> "CursorLeft"])
      [] x11.type = "EnterNotify" -> Some([tag |-> "CursorEntered"])
      [] x11.type = "ButtonPress" -> map_button_event(x11.detail, Pressed)
      [] x11.type = "ButtonRelease" -> map_button_event(x11.detail, Released)
      [] OTHER -> None

\* SizeAfter without the `self.size.set(..)` of line 265
SizeAfterNoSet(x11, cached) == cached

\* lines 263-266: the cached size after the match arm of a raw event has run
SizeAfter(x11, cached) ==
    IF x11.type = "ResizeRequest" THEN ResizeSize(x11) ELSE cached

----------------------------------------------------------------------------
(* Inputs: the configuration and what the server reports *)

Unit == [tag |-> "Unit"]

Call(op, ok, arg) == [op |-> op, ok |-> ok, arg |-> arg]

ScreenInfo(wpx, hpx, wmm, hmm, root) ==
    [width_in_pixels |-> wpx, height_in_pixels |-> hpx,
     width_in_millimeters |-> wmm, height_in_millimeters |-> hmm,
     root |-> root]

\* WindowConfig::new() and its builder methods (src/src/lib.rs lines 32-83)
DefaultConfig ==
    [title |-> "swil window", visible |-> TRUE, resizable |-> TRUE,
     size |-> Logical(LogicalSize(750, 500))]

FixedConfig ==
    [title |-> "t", visible |-> FALSE, resizable |-> FALSE,
     size |-> Physical(PhysicalSize(U32Of(70000), U32Of(300)))]

Atoms == [WM_PROTOCOLS |-> 301, WM_DELETE_WINDOW |-> 302]

\* what the server reports: the Xft.dpi resource, the screen number of the
\* display and the screens of the setup, the interned atoms, a fresh id
Env(xft_dpi, screen_num, roots) ==
    [xft_dpi |-> xft_dpi, screen_num |-> screen_num, roots |-> roots,
     atoms |-> Atoms, id |-> 4194305]

Monitor == ScreenInfo(1920, 1080, 508, 285, 1001)

\* the creations the lifecycle specification starts from
Setups ==
    { [config |-> DefaultConfig, env |-> Env(Some(144), 0, <<Monitor>>)],
      [config |-> FixedConfig, env |-> Env(None, 0, <<Monitor>>)],
      [config |-> DefaultConfig, env |-> Env(None, 1, <<Monitor>>)] }

\* the screen Window::new works on (line 60); roots is indexed from 0
Screen == env.roots[env.screen_num + 1]

Titles == {"t"}

ClientMessage(format, data0) ==
    [type |-> "ClientMessage", format |-> format, data0 |-> data0]

\* the raw events the server sends in the lifecycle specification: two resize
\* requests, a close request, two client messages that are none, a focus
\* change, and an event outside the vocabulary
RawEvents ==
    {[type |-> "ResizeRequest", width |-> w, height |-> 300] : w \in {400, 800}}
    \cup {ClientMessage(32, Atoms.WM_DELETE_WINDOW),
          ClientMessage(32, Atoms.WM_PROTOCOLS),
          ClientMessage(8, Atoms.WM_DELETE_WINDOW)}
    \cup {[type |-> t] : t \in {"FocusIn", "Expose"}}

----------------------------------------------------------------------------
(* Window::new, lines 54-183: one action per fallible step *)

Init ==
    /\ pc = "load"
    /\ \E setup \in Setups : config = setup.config /\ env = setup.env
    /\ handle = FALSE
    /\ window = None
    /\ scale_factor = None
    /\ atoms = None
    /\ size = None
    /\ result = NoResult
    /\ log = <<>>
    /\ destroys = 0
    /\ queue = <<>>
    /\ sent = 0
    /\ ops = 0
    /\ received = <<>>
    /\ delivered = <<>>
    /\ event = None
    /\ exit = FALSE

\* Attempt without the `?`: the error is dropped and creation goes on
AttemptNoReturn(op, arg, kind, next) ==
    \E ok \in BOOLEAN :
        /\ log' = Append(log, Call(op, ok, arg))
        /\ pc' = next
        /\ result' = result

\* a fallible call of Window::new: `call(..).map_err(|err| Error::kind(err))?`
Attempt(op, arg, kind, next) ==
    \E ok \in BOOLEAN :
        /\ log' = Append(log, Call(op, ok, arg))
        /\ pc' = IF ok THEN next ELSE "failed"
        /\ result' = IF ok THEN result ELSE Err(kind)

\* line 56
LoadLibxcb ==
    /\ pc = "load"
    /\ Attempt("load_libxcb", Unit, "XcbLoadFailed", "connect")
    /\ UNCHANGED <<config, env, handle, winVars, destroys, ops, loopVars>>

\* line 59
Connect ==
    /\ pc = "connect"
    /\ Attempt("connect", Unit, "X11ConnectionFailed", "screen")
    /\ UNCHANGED <<config, env, handle, winVars, destroys, ops, loopVars>>

\* line 60: indexing roots out of range panics
LookupScreen ==
    /\ pc = "screen"
    /\ pc' = IF env.screen_num < Len(env.roots) THEN "atoms" ELSE "new_panicked"
    /\ UNCHANGED <<config, env, handle, winVars, result, log, destroys, ops, loopVars>>

\* lines 63-64
AtomSetNew ==
    /\ pc = "atoms"
    /\ Attempt("intern_atoms", [names |-> <<"WM_PROTOCOLS", "WM_DELETE_WINDOW">>],
               "X11AtomFetchFailed", "atoms_reply")
    /\ UNCHANGED <<config, env, handle, winVars, destroys, ops, loopVars>>

\* lines 65-66
AtomSetReply ==
    /\ pc = "atoms_reply"
    /\ Attempt("intern_atoms_reply", Unit, "X11AtomReplyError", "scale")
    /\ atoms' = IF pc' = "scale" THEN env.atoms ELSE atoms
    /\ UNCHANGED <<config, env, handle, window, scale_factor, size, destroys, ops, loopVars>>

\* lines 68-102: the resource database query never fails the creation
ResolveScale ==
    /\ pc = "scale"
    /\ log' = Append(log, Call("resource_manager", TRUE, Unit))
    /\ scale_factor' = ResolveScaleFactor(env.xft_dpi, Screen)
    /\ size' = InitialSize(config, scale_factor')
    /\ pc' = "generate_id"
    /\ UNCHANGED <<config, env, handle, window, atoms, result, destroys, ops, loopVars>>

\* line 105
GenerateId ==
    /\ pc = "generate_id"
    /\ Attempt("generate_id", Unit, "X11GenerateIdFailed", "create_window")
    /\ window' = IF pc' = "create_window" THEN env.id ELSE window
    /\ UNCHANGED <<config, env, handle, scale_factor, atoms, size, destroys, ops, loopVars>>

\* lines 121-133
CreateWindowArg ==
    [wid |-> window, parent |-> Screen.root,
     width |-> U32AsU16(size.width), height |-> U32AsU16(size.height)]

CreateWindow ==
    /\ pc = "create_window"
    /\ Attempt("create_window", CreateWindowArg, "X11CreateWindowFailed", "title")
    /\ UNCHANGED <<config, env, handle, winVars, destroys, ops, loopVars>>

\* the change_property8 request of lines 136-142 and 186-192
TitleArg(title) == [window |-> window, property |-> "WM_NAME", data |-> title]

\* lines 136-142
SetTitleNew ==
    /\ pc = "title"
    /\ Attempt("change_property8", TitleArg(config.title), "X11SetTitleFailed", "hook")
    /\ UNCHANGED <<config, env, handle, winVars, destroys, ops, loopVars>>

\* lines 145-151
HookArg ==
    [window |-> window, property |-> atoms.WM_PROTOCOLS,
     data |-> <<atoms.WM_DELETE_WINDOW>>]

HookClose ==
    /\ pc = "hook"
    /\ Attempt("change_property32", HookArg, "X11WindowCloseHookFailed", "hints")
    /\ UNCHANGED <<config, env, handle, winVars, destroys, ops, loopVars>>

\* the WmSizeHints of lines 155-159 and 212-216
FixedHints(s) ==
    [window |-> window,
     min_size |-> Some(<<U32AsI32(s.width), U32AsI32(s.height)>>),
     max_size |-> Some(<<U32AsI32(s.width), U32AsI32(s.height)>>)]

\* SetHintsNew with the test of line 154 inverted
SetHintsNewWhenResizable ==
    /\ pc = "hints"
    /\ IF config.resizable
       THEN Attempt("set_normal_hints", FixedHints(size), "X11SetSizeHintsFailed", "map")
       ELSE pc' = "map" /\ UNCHANGED <<log, result>>
    /\ UNCHANGED <<config, env, handle, winVars, destroys, ops, loopVars>>

\* lines 154-164
SetHintsNew ==
    /\ pc = "hints"
    /\ IF ~config.resizable
       THEN Attempt("set_normal_hints", FixedHints(size), "X11SetSizeHintsFailed", "map")
       ELSE pc' = "map" /\ UNCHANGED <<log, result>>
    /\ UNCHANGED <<config, env, handle, winVars, destroys, ops, loopVars>>

\* lines 167-169
MapNew ==
    /\ pc = "map"
    /\ IF config.visible
       THEN Attempt("map_window", [window |-> window], "X11MapWindowFailed", "flush")
       ELSE pc' = "flush" /\ UNCHANGED <<log, result>>
    /\ UNCHANGED <<config, env, handle, winVars, destroys, ops, loopVars>>

\* lines 171-182: the flush, then the Window is returned
FlushNew ==
    /\ pc = "flush"
    /\ \E ok \in BOOLEAN :
        /\ log' = Append(log, Call("flush", ok, Unit))
        /\ pc' = IF ok THEN "ready" ELSE "failed"
        /\ result' = IF ok THEN Ok([tag |-> "Window"]) ELSE Err("X11FlushFailed")
        /\ handle' = ok
    /\ UNCHANGED <<config, env, winVars, destroys, ops, loopVars>>

NextNew ==
    \/ LoadLibxcb \/ Connect \/ LookupScreen \/ AtomSetNew \/ AtomSetReply
    \/ ResolveScale \/ GenerateId \/ CreateWindow \/ SetTitleNew \/ HookClose
    \/ SetHintsNew \/ MapNew \/ FlushNew

----------------------------------------------------------------------------
(* The Window in use: mutators, size(), scale_factor() *)

\* a mutator's body: one request, then `self.conn.flush()`; the outcome says
\* which of the two calls, if any, failed
Outcomes == {"ok", "request_failed", "flush_failed"}

\* RequestThenFlush mapping a flush failure to the error kind of the request
RequestThenFlushOwnKind(op, arg, kind, outcome) ==
    /\ log' = IF outcome = "request_failed"
              THEN <<Call(op, FALSE, arg)>>
              ELSE <<Call(op, TRUE, arg), Call("flush", outcome = "ok", Unit)>>
    /\ result' = IF outcome = "ok" THEN Ok(Unit) ELSE Err(kind)

RequestThenFlush(op, arg, kind, outcome) ==
    /\ log' = IF outcome = "request_failed"
              THEN <<Call(op, FALSE, arg)>>
              ELSE <<Call(op, TRUE, arg), Call("flush", outcome = "ok", Unit)>>
    /\ result' = CASE outcome = "request_failed" -> Err(kind)
                   [] outcome = "flush_failed" -> Err("X11FlushFailed")
                   [] OTHER -> Ok(Unit)

CanCall == pc = "ready" /\ handle /\ ops < MaxOps

\* lines 185-195
SetTitle ==
    /\ CanCall
    /\ \E title \in Titles, outcome \in Outcomes :
        RequestThenFlush("change_property8", TitleArg(title), "X11SetTitleFailed", outcome)
    /\ ops' = ops + 1
    /\ UNCHANGED <<pc, config, env, handle, winVars, destroys, loopVars>>

\* lines 197-206
SetVisible ==
    /\ CanCall
    /\ \E visible \in BOOLEAN, outcome \in Outcomes :
        RequestThenFlush(IF visible THEN "map_window" ELSE "unmap_window",
                         [window |-> window], "X11MapWindowFailed", outcome)
    /\ ops' = ops + 1
    /\ UNCHANGED <<pc, config, env, handle, winVars, destroys, loopVars>>

\* SizeFn without the `self.size.set(size.clone())` of line 235
SizeFnNoRestore(cached) ==
    [ret |-> Ok(cached), cell |-> PhysicalSize(U32Of(0), U32Of(0))]

\* lines 233-238: the value size() returns and the value it leaves in the cell
SizeFn(cached) ==
    LET taken == cached                  \* self.size.replace(0x0) returns the old value
        emptied == PhysicalSize(U32Of(0), U32Of(0))    \* what the cell holds in between
        restored == taken                \* self.size.set(size.clone())
    IN  [ret |-> Ok(taken), cell |-> restored]

\* lines 219-223
ClearedHints == [window |-> window, min_size |-> None, max_size |-> None]

\* HintsFor taking the size computed at creation instead of calling size()
HintsForCreationSize(resizable, cached) ==
    IF ~resizable THEN FixedHints(InitialSize(config, scale_factor)) ELSE ClearedHints

\* lines 209-224
HintsFor(resizable, cached) ==
    IF ~resizable THEN FixedHints(SizeFn(cached).ret.val) ELSE ClearedHints

\* lines 208-231, for one value of the argument
SetResizableWith(resizable) ==
    /\ CanCall
    /\ \E outcome \in Outcomes :
        /\ RequestThenFlush("set_normal_hints", HintsFor(resizable, size),
                            "X11SetSizeHintsFailed", outcome)
        /\ size' = IF ~resizable THEN SizeFn(size).cell ELSE size
    /\ ops' = ops + 1
    /\ UNCHANGED <<pc, config, env, handle, window, scale_factor, atoms, destroys, loopVars>>

\* lines 208-231
SetResizable == \E resizable \in BOOLEAN : SetResizableWith(resizable)

\* lines 233-238
Size ==
    /\ CanCall
    /\ result' = SizeFn(size).ret
    /\ size' = SizeFn(size).cell
    /\ log' = <<>>
    /\ ops' = ops + 1
    /\ UNCHANGED <<pc, config, env, handle, window, scale_factor, atoms, destroys, loopVars>>

\* lines 240-242
ScaleFactor ==
    /\ CanCall
    /\ result' = scale_factor
    /\ log' = <<>>
    /\ ops' = ops + 1
    /\ UNCHANGED <<pc, config, env, handle, winVars, destroys, loopVars>>

----------------------------------------------------------------------------
(* Window::event_loop, lines 258-320 *)

\* the server queues a raw event on the connection. When an event arrives is
\* visible to the program only through wait_for_event, so arrivals are taken
\* while the loop is at its wait; any number may arrive before it returns.
ServerSend ==
    /\ pc = "loop_wait"
    /\ sent < MaxEvents
    /\ \E x11 \in RawEvents : queue' = Append(queue, x11)
    /\ sent' = sent + 1
    /\ UNCHANGED <<pc, config, env, handle, winVars, result, log, destroys, ops,
                   received, delivered, event, exit>>

\* the caller enters event_loop
EventLoop ==
    /\ CanCall
    /\ pc' = "loop_wait"
    /\ result' = NoResult
    /\ log' = <<>>
    /\ ops' = ops + 1
    /\ UNCHANGED <<config, env, handle, winVars, destroys, loopVars>>

\* WaitFailed going round the loop instead of returning
WaitFailedRetry ==
    /\ log' = Append(log, Call("wait_for_event", FALSE, Unit))
    /\ pc' = "loop_wait"
    /\ UNCHANGED <<result, size, queue, received, event, exit>>

\* line 260, failing: the `?` returns the error
WaitFailed ==
    /\ log' = Append(log, Call("wait_for_event", FALSE, Unit))
    /\ pc' = "ready"
    /\ result' = Err("X11WaitForEventFailed")
    /\ UNCHANGED <<size, queue, received, event, exit>>

\* AfterMatch never entering the `if let Some` body
AfterMatchNoCall(ev) == "loop_wait"

\* AfterMatch leaving the loop once a close request was translated
AfterMatchCloseReturns(ev) ==
    IF ev.tag = "Some"
    THEN (IF ev.val.tag = "CloseRequested" THEN "ready" ELSE "loop_call")
    ELSE "loop_wait"

\* where the loop goes after the match: into the `if let Some` body or around
AfterMatch(ev) == IF ev.tag = "Some" THEN "loop_call" ELSE "loop_wait"

\* lines 260-312: wait_for_event returns the oldest pending raw event, the
\* match translates it, and for Some(event) `exit` is declared false
WaitReturned ==
    /\ queue # <<>>
    /\ LET x11 == Head(queue) IN
        /\ log' = Append(log, Call("wait_for_event", TRUE, Unit))
        /\ queue' = Tail(queue)
        /\ received' = Append(received, x11)
        /\ size' = SizeAfter(x11, size)
        /\ event' = Translate(x11, atoms)
        /\ pc' = AfterMatch(event')
        /\ exit' = IF event'.tag = "Some" THEN FALSE ELSE exit
    /\ UNCHANGED result

WaitForEvent ==
    /\ pc = "loop_wait"
    /\ (WaitFailed \/ WaitReturned)
    /\ UNCHANGED <<config, env, handle, window, scale_factor, atoms, destroys, sent, ops,
                   delivered>>

\* line 313: the handler runs; it sees the event and the flag, may read
\* size(), and leaves the flag as it chooses
HandlerCall ==
    /\ pc = "loop_call"
    /\ delivered' = Append(delivered,
            [event |-> event.val, exit |-> exit, size |-> SizeFn(size).ret.val])
    /\ size' = SizeFn(size).cell
    /\ \E set \in BOOLEAN : exit' = set
    /\ pc' = "loop_check"
    /\ UNCHANGED <<config, env, handle, window, scale_factor, atoms, result, log,
                   destroys, queue, sent, ops, received, event>>

\* AfterHandler without the `if exit` test
AfterHandlerNoExit(flag) == [pc |-> "loop_wait", result |-> NoResult]

\* AfterHandler calling the handler again when the flag is not set
AfterHandlerAgain(flag) ==
    IF flag THEN [pc |-> "ready", result |-> Ok(Unit)]
    ELSE [pc |-> "loop_call", result |-> NoResult]

\* lines 315-317: what the loop does after the handler returned
AfterHandler(flag) ==
    IF flag THEN [pc |-> "ready", result |-> Ok(Unit)]
    ELSE [pc |-> "loop_wait", result |-> NoResult]

CheckExit ==
    /\ pc = "loop_check"
    /\ pc' = AfterHandler(exit).pc
    /\ result' = AfterHandler(exit).result
    /\ UNCHANGED <<config, env, handle, winVars, log, destroys, ops, loopVars>>

----------------------------------------------------------------------------
(* impl Drop for Window, lines 323-327 *)

\* line 325: the unwrap of the destroy_window result
DropOutcome(ok) == IF ok THEN "dropped" ELSE "panicked"

\* Drop issuing no request
DropNoDestroy ==
    /\ pc = "ready"
    /\ handle
    /\ log' = <<>>
    /\ pc' = "dropped"
    /\ handle' = FALSE
    /\ UNCHANGED <<config, env, winVars, result, destroys, ops, loopVars>>

\* the owner releases the Window
Drop ==
    /\ pc = "ready"
    /\ handle
    /\ \E ok \in BOOLEAN :
        /\ log' = <<Call("destroy_window", ok, [window |-> window])>>
        /\ pc' = DropOutcome(ok)
    /\ destroys' = destroys + 1
    /\ handle' = FALSE
    /\ UNCHANGED <<config, env, winVars, result, ops, loopVars>>

NextUse ==
    \/ SetTitle \/ SetVisible \/ SetResizable \/ Size \/ ScaleFactor
    \/ ServerSend \/ EventLoop \/ WaitForEvent \/ HandlerCall \/ CheckExit
    \/ Drop

Next == NextNew \/ NextUse

Spec == Init /\ [][Next]_vars

----------------------------------------------------------------------------
(* Properties *)

LoopPcs == {"loop_wait", "loop_call", "loop_check"}

\* the raw events of a sequence that translate to an event, and their events
Translatable(raws) == SelectSeq(raws, LAMBDA x : Translate(x, atoms).tag = "Some")
TranslatedEvents(raws) ==
    [i \in 1..Len(Translatable(raws)) |-> Translate(Translatable(raws)[i], atoms).val]

\* the events the handler has been called with, in order
DeliveredEvents == [i \in 1..Len(delivered) |-> delivered[i].event]

\* number of elements of a sequence that satisfy a test
Count(seq, Test(_)) == Cardinality({i \in 1..Len(seq) : Test(seq[i])})

\* the last call on the connection was a wait_for_event that failed
LastWaitFailed(l) ==
    /\ l # <<>>
    /\ l[Len(l)].op = "wait_for_event"
    /\ ~l[Len(l)].ok

\* C1: once the handler has set the exit flag, the next step of event_loop is
\* its return of Ok: no wait_for_event is made, no raw event is taken from the
\* connection and the handler is not called again, whatever is still pending.
C1_ExitReturnsAtOnce ==
    [][(pc = "loop_check" /\ exit) =>
            /\ pc' = "ready"
            /\ result' = Ok(Unit)
            /\ log' = log
            /\ queue' = queue
            /\ received' = received
            /\ delivered' = delivered]_vars

\* event_loop, the only call made, has returned Ok after a handler call, and
\* raw events are still pending
C1_Witness ==
    /\ pc = "ready"
    /\ ops = 1
    /\ result = Ok(Unit)
    /\ delivered # <<>>
    /\ queue # <<>>

\* C2: every received raw event that translates to an event has had exactly
\* one handler call with that event (the one being dispatched has its call
\* pending), raw events that translate to nothing have had none, and the exit
\* flag was false on entry to every handler call.
C2_OneCallPerEvent ==
    /\ \A i \in 1..Len(received) :
        LET ev == Translate(received[i], atoms) IN
        ev.tag = "Some" =>
            Count(delivered, LAMBDA d : d.event = ev.val)
                + (IF pc = "loop_call" /\ event = ev THEN 1 ELSE 0)
            = Count(received, LAMBDA x : Translate(x, atoms) = ev)
    /\ \A i \in 1..Len(delivered) :
        /\ delivered[i].exit = FALSE
        /\ \E j \in 1..Len(received) : Translate(received[j], atoms) = Some(delivered[i].event)

\* two raw events were received, one dispatched and one dropped
C2_Witness ==
    /\ pc = "loop_wait"
    /\ Len(received) = 2
    /\ Len(delivered) = 1
    /\ \E i \in 1..2 : Translate(received[i], atoms) = None

\* the size of the last resize request among the raw events, else the default
RECURSIVE LastResize(_, _)
LastResize(raws, default) ==
    IF raws = <<>> THEN default
    ELSE LET x == raws[Len(raws)] IN
         IF x.type = "ResizeRequest"
         THEN [width |-> MkU32(0, x.width), height |-> MkU32(0, x.height)]
         ELSE LastResize(SubSeq(raws, 1, Len(raws) - 1), default)

\* the size computed at creation (lines 98-102)
CreatedSize ==
    IF config.size.tag = "Physical" THEN config.size.val
    ELSE PhysicalSizeFromLogical(config.size.val, scale_factor)

\* C3: while the Window exists, in particular at every handler call and after
\* event_loop returned, the cached size is the size of the latest resize
\* request received, or the size computed at creation; the size() a handler
\* reads when called with Resized(s) is s; size() returns the cached size,
\* leaves it unchanged and makes no call on the connection.
C3_SizeInv ==
    /\ (pc \in LoopPcs \cup {"ready"}) => size = LastResize(received, CreatedSize)
    /\ \A i \in 1..Len(delivered) :
        delivered[i].event.tag = "Resized" => delivered[i].size = delivered[i].event.size

C3_CachedSize ==
    /\ []C3_SizeInv
    /\ [][Size => (size' = size /\ result' = Ok(size) /\ log' = <<>>)]_vars
    /\ [][(SetTitle \/ SetVisible \/ SetResizable) => size' = size]_vars

\* the handler is being called for the second of two different resize requests
C3_Witness ==
    /\ pc = "loop_call"
    /\ Len(received) = 2
    /\ received[1].type = "ResizeRequest"
    /\ received[2].type = "ResizeRequest"
    /\ received[1] # received[2]
    /\ size = [width |-> MkU32(0, received[2].width), height |-> MkU32(0, received[2].height)]
    /\ size # CreatedSize

\* the calls of a creation with the given configuration, in order
CreationCalls(cfg) ==
    <<"load_libxcb", "connect", "intern_atoms", "intern_atoms_reply",
      "resource_manager", "generate_id", "create_window", "change_property8",
      "change_property32">>
    \o (IF cfg.resizable THEN <<>> ELSE <<"set_normal_hints">>)
    \o (IF cfg.visible THEN <<"map_window">> ELSE <<>>)
    \o <<"flush">>

\* the error kind of each fallible creation step (src/src/error.rs)
CreationErrorKind(op) ==
    CASE op = "load_libxcb" -> "XcbLoadFailed"
      [] op = "connect" -> "X11ConnectionFailed"
      [] op = "intern_atoms" -> "X11AtomFetchFailed"
      [] op = "intern_atoms_reply" -> "X11AtomReplyError"
      [] op = "generate_id" -> "X11GenerateIdFailed"
      [] op = "create_window" -> "X11CreateWindowFailed"
      [] op = "change_property8" -> "X11SetTitleFailed"
      [] op = "change_property32" -> "X11WindowCloseHookFailed"
      [] op = "set_normal_hints" -> "X11SetSizeHintsFailed"
      [] op = "map_window" -> "X11MapWindowFailed"
      [] op = "flush" -> "X11FlushFailed"
      [] OTHER -> "none"

\* C4: when a creation has failed, the calls made are a prefix of the creation
\* sequence that ends with the one failed call, every call before it succeeded,
\* Window::new returned the error kind of that call and no Window; a Window is
\* returned only after the whole sequence succeeded; nothing follows a failure.
C4_FailedInv ==
    /\ pc = "failed" =>
        /\ log # <<>>
        /\ \A i \in 1..Len(log) :
            /\ log[i].op = CreationCalls(config)[i]
            /\ log[i].ok = (i < Len(log))
        /\ result = Err(CreationErrorKind(log[Len(log)].op))
        /\ ~handle
    /\ (pc = "ready" /\ ops = 0) =>
        /\ handle
        /\ Len(log) = Len(CreationCalls(config))
        /\ \A i \in 1..Len(log) : log[i].op = CreationCalls(config)[i] /\ log[i].ok
    /\ handle => pc \in LoopPcs \cup {"ready"}

C4_CreationFailFast ==
    /\ []C4_FailedInv
    /\ [][pc # "failed"]_vars

\* the registration of the close protocol failed, after eight calls succeeded
C4_Witness ==
    /\ pc = "failed"
    /\ result = Err("X11WindowCloseHookFailed")
    /\ Len(log) = 9
    /\ ~handle

\* C5: a failed wait_for_event is the last call event_loop makes: the step
\* that makes it returns Err(X11WaitForEventFailed) without taking a raw event
\* or calling the handler, and the loop is never at a wait, a handler call or
\* an exit test with a failed wait behind it.
C5_FailedWaitInv ==
    \A i \in 1..Len(log) :
        (log[i].op = "wait_for_event" /\ ~log[i].ok) =>
            /\ i = Len(log)
            /\ pc = "ready"
            /\ result = Err("X11WaitForEventFailed")

C5_WaitFailureReturns ==
    /\ []C5_FailedWaitInv
    /\ [][(log' # log /\ LastWaitFailed(log')) =>
            /\ pc' = "ready"
            /\ result' = Err("X11WaitForEventFailed")
            /\ received' = received
            /\ delivered' = delivered]_vars

\* event_loop returned the wait error after a handler call, events pending
C5_Witness ==
    /\ pc = "ready"
    /\ result = Err("X11WaitForEventFailed")
    /\ LastWaitFailed(log)
    /\ delivered # <<>>
    /\ queue # <<>>

\* C6: a step leaves event_loop only from the exit test with the flag set,
\* returning Ok, or from a wait_for_event that failed, returning the error;
\* every other step of the loop stays in the loop, also the one after a
\* CloseRequested was handled and the one that drops a raw event.
C6_OnlyTwoReturns ==
    [][(pc \in LoopPcs) =>
            \/ pc' \in LoopPcs
            \/ pc = "loop_check" /\ exit /\ pc' = "ready" /\ result' = Ok(Unit)
            \/ /\ pc = "loop_wait"
               /\ LastWaitFailed(log') /\ Len(log') = Len(log) + 1
               /\ pc' = "ready"
               /\ result' = Err("X11WaitForEventFailed")]_vars

\* the loop waits again after a CloseRequested was handled without the flag
\* being set and a raw event was dropped
C6_Witness ==
    /\ pc = "loop_wait"
    /\ Len(received) = 2
    /\ Len(delivered) = 1
    /\ delivered[1].event = CloseRequested
    /\ Translate(received[2], atoms) = None

\* C7: the events the handler was called with are, in order, the translations
\* of the raw events received, the dropped ones left out; at most the last one
\* has its call outstanding, and when wait_for_event returns a raw event every
\* earlier call has completed.
C7_OrderInv ==
    /\ Len(delivered) <= Len(TranslatedEvents(received))
    /\ Len(TranslatedEvents(received)) <= Len(delivered) + 1
    /\ DeliveredEvents = SubSeq(TranslatedEvents(received), 1, Len(delivered))

C7_ArrivalOrder ==
    /\ []C7_OrderInv
    /\ [][received' # received =>
            /\ pc = "loop_wait"
            /\ Len(delivered) = Len(TranslatedEvents(received))
            /\ received' = Append(received, Head(queue))]_vars

\* two different events were delivered, in the order their raw events came
C7_Witness ==
    /\ Len(received) = 2
    /\ Len(delivered) = 2
    /\ delivered[1].event # delivered[2].event
    /\ delivered[1].event = Translate(received[1], atoms).val

\* C8: no destroy_window request is made while the Window is owned, exactly
\* one has been made once it is dropped, whatever the last call returned, and
\* none is made for a creation that failed.
C8_DestroyOnce ==
    /\ handle => destroys = 0
    /\ pc \in {"dropped", "panicked"} => destroys = 1 /\ ~handle
    /\ pc \in {"failed", "new_panicked"} => destroys = 0
    /\ pc \in {"dropped", "panicked"} =>
        /\ Len(log) = 1
        /\ log[1].op = "destroy_window"
        /\ log[1].arg = [window |-> window]

\* the Window was dropped after event_loop returned an error
C8_Witness ==
    /\ pc = "dropped"
    /\ destroys = 1
    /\ result = Err("X11WaitForEventFailed")

\* C9: dropping the Window never aborts the caller, also when the
\* destroy_window request fails.
C9_DropNeverPanics ==
    (log # <<>> /\ log[Len(log)].op = "destroy_window") => pc = "dropped"

\* C10: a client message received by the loop gives Some(CloseRequested) and a
\* handler call when its format is 32 and its first data word is the
\* WM_DELETE_WINDOW atom the server returned at creation, and otherwise no
\* event and no handler call; the handler has been called with CloseRequested
\* once for each matching message.
IsCloseMessage(x) ==
    /\ x.type = "ClientMessage"
    /\ x.format = 32
    /\ x.data0 = env.atoms.WM_DELETE_WINDOW

C10_CloseCountInv ==
    Count(delivered, LAMBDA d : d.event = [tag |-> "CloseRequested"])
        + (IF pc = "loop_call" /\ event = Some([tag |-> "CloseRequested"]) THEN 1 ELSE 0)
    = Count(received, IsCloseMessage)

C10_CloseRequest ==
    /\ []C10_CloseCountInv
    /\ [][(received' # received /\ received'[Len(received')].type = "ClientMessage") =>
            IF IsCloseMessage(received'[Len(received')])
            THEN event' = Some([tag |-> "CloseRequested"]) /\ pc' = "loop_call"
            ELSE event' = None /\ pc' = "loop_wait" /\ delivered' = delivered]_vars

\* a matching and a non-matching client message were received; the handler
\* was called once, with CloseRequested
C10_Witness ==
    /\ Len(received) = 2
    /\ Count(received, IsCloseMessage) = 1
    /\ \A i \in 1..2 : received[i].type = "ClientMessage"
    /\ Len(delivered) = 1
    /\ delivered[1].event = [tag |-> "CloseRequested"]
    /\ pc = "loop_wait"

----------------------------------------------------------------------------
(* Button translation on its own: every button event, translated once *)

\* `button: u8`
ButtonCodes == 0..255

\* the ButtonPress and ButtonRelease events of lines 306-307
ButtonEvents ==
    {[type |-> t, detail |-> b] : t \in {"ButtonPress", "ButtonRelease"},
                                  b \in ButtonCodes}

\* one button event is pending on the connection of a created Window
InitButton ==
    /\ pc = "button"
    /\ config = DefaultConfig
    /\ env = Env(None, 0, <<Monitor>>)
    /\ handle = TRUE
    /\ window = env.id
    /\ scale_factor = ResolveScaleFactor(env.xft_dpi, Monitor)
    /\ atoms = Atoms
    /\ size = InitialSize(config, scale_factor)
    /\ result = NoResult
    /\ log = <<>>
    /\ destroys = 0
    /\ \E x11 \in ButtonEvents : queue = <<x11>>
    /\ sent = 1
    /\ ops = 0
    /\ received = <<>>
    /\ delivered = <<>>
    /\ event = None
    /\ exit = FALSE

\* lines 260-309 for a button event: it is taken and matched
TranslateButton ==
    /\ pc = "button"
    /\ received' = Append(received, Head(queue))
    /\ queue' = Tail(queue)
    /\ event' = Translate(Head(queue), atoms)
    /\ pc' = "button_done"
    /\ UNCHANGED <<config, env, handle, winVars, result, log, destroys, sent, ops,
                   delivered, exit>>

NextButton == TranslateButton

SpecButton == InitButton /\ [][NextButton]_vars

\* the ButtonState the match arm of a button event passes on
ButtonStateOf(x11) == IF x11.type = "ButtonPress" THEN Pressed ELSE Released

----------------------------------------------------------------------------
(* Failures of the mutators *)

\* the state in which the Window's methods, event_loop and drop can be called
Accepting == pc = "ready" /\ handle

\* C12: a set_title, set_visible or set_resizable call that returns an error
\* leaves the cached size, the scale factor, the atom set and the window
\* identifier as they were, and leaves the Window where every operation can
\* still be called, with nothing else of its state changed.
C12_FailureIsLocal ==
    [][(SetTitle \/ SetVisible \/ SetResizable) /\ result'.tag = "Err"
        => /\ size' = size
           /\ scale_factor' = scale_factor
           /\ atoms' = atoms
           /\ window' = window
           /\ Accepting'
           /\ UNCHANGED <<config, env, destroys, loopVars>>]_vars

\* set_resizable(false) has failed on its request after the loop processed a
\* resize, and the cached size is still the size of that resize
C12_Witness ==
    /\ Accepting
    /\ ops = 2
    /\ received # <<>>
    /\ received[Len(received)].type = "ResizeRequest"
    /\ log = <<Call("set_normal_hints", FALSE, FixedHints(ResizeSize(received[Len(received)])))>>
    /\ result = Err("X11SetSizeHintsFailed")
    /\ size = ResizeSize(received[Len(received)])

\* the variants of Error (src/src/error.rs lines 6-42)
ErrorKinds ==
    {"XcbLoadFailed", "X11ConnectionFailed", "X11AtomFetchFailed",
     "X11AtomReplyError", "X11GenerateIdFailed", "X11CreateWindowFailed",
     "X11SetTitleFailed", "X11WindowCloseHookFailed", "X11SetSizeHintsFailed",
     "X11MapWindowFailed", "X11FlushFailed", "X11WaitForEventFailed"}

\* the mutator call just made returned the error kind k
TitleFailedWith(k) == result' = Err(k) /\ SetTitle
VisibleFailedWith(k) == result' = Err(k) /\ SetVisible
ResizableFailedWith(k) == result' = Err(k) /\ SetResizable

\* C13 as stated: whatever failed, the request or the flush, the kind a
\* failing mutator call returns is one that no other mutator can return.
C13_OwnKindAlways ==
    [][\A k \in ErrorKinds :
        /\ TitleFailedWith(k) =>
                ~ENABLED (VisibleFailedWith(k) \/ ResizableFailedWith(k))
        /\ VisibleFailedWith(k) =>
                ~ENABLED (TitleFailedWith(k) \/ ResizableFailedWith(k))
        /\ ResizableFailedWith(k) =>
                ~ENABLED (TitleFailedWith(k) \/ VisibleFailedWith(k))]_vars

\* C13, amended: when its request fails, a mutator returns a kind that no
\* other mutator can return; when its request succeeds and its flush fails,
\* it returns X11FlushFailed, the kind every mutator returns for a failed
\* flush.
C13_OwnKindOnRequest ==
    [][\A k \in ErrorKinds :
        /\ TitleFailedWith(k) /\ ~log'[1].ok =>
                ~ENABLED (VisibleFailedWith(k) \/ ResizableFailedWith(k))
        /\ VisibleFailedWith(k) /\ ~log'[1].ok =>
                ~ENABLED (TitleFailedWith(k) \/ ResizableFailedWith(k))
        /\ ResizableFailedWith(k) /\ ~log'[1].ok =>
                ~ENABLED (TitleFailedWith(k) \/ VisibleFailedWith(k))
        /\ (TitleFailedWith(k) \/ VisibleFailedWith(k) \/ ResizableFailedWith(k))
                /\ log'[1].ok =>
                /\ log'[2] = Call("flush", FALSE, Unit)
                /\ k = "X11FlushFailed"]_vars

\* set_title has failed on its flush, after its request went through, and
\* returned the flush error kind
C13_Witness ==
    /\ Accepting
    /\ Len(log) = 2
    /\ log[1].op = "change_property8" /\ log[1].ok
    /\ log[2] = Call("flush", FALSE, Unit)
    /\ result = Err("X11FlushFailed")

----------------------------------------------------------------------------
(* Window::new on its own, over a range of configurations and servers *)

\* WindowConfig values the builder methods produce (src/src/lib.rs lines 32-83)
NewConfigs ==
    {[title |-> "t", visible |-> v, resizable |-> r, size |-> s] :
        v \in BOOLEAN, r \in BOOLEAN,
        s \in {Logical(LogicalSize(750, 500)), Logical(LogicalSize(101, 33)),
               Physical(PhysicalSize(U32Of(1125), U32Of(750))),
               Physical(PhysicalSize(U32Of(70000), U32Of(300)))}}

\* what the resource database holds for Xft.dpi (line 70-74): nothing, or a u32
DpiPrefs == {None, Some(0), Some(24), Some(96), Some(120), Some(144), Some(192)}

\* screens: a laptop panel, a denser one, one reporting no physical size, one
\* reporting a physical size of a few millimetres, and a coarse one
HiDpi == ScreenInfo(3840, 2160, 509, 285, 1002)
NoMillimeters == ScreenInfo(1920, 1080, 0, 0, 1003)
Tiny == ScreenInfo(1920, 1080, 10, 10, 1004)
Coarse == ScreenInfo(800, 600, 508, 285, 1005)

RootLists ==
    {<<s>> : s \in {Monitor, HiDpi, NoMillimeters, Tiny, Coarse}}
    \cup {<<Monitor, HiDpi>>}

NewSetups ==
    {[config |-> c, env |-> Env(d, n, r)] :
        c \in NewConfigs, d \in DpiPrefs, n \in {0, 1}, r \in RootLists}

InitNew ==
    /\ pc = "load"
    /\ \E setup \in NewSetups : config = setup.config /\ env = setup.env
    /\ handle = FALSE
    /\ window = None
    /\ scale_factor = None
    /\ atoms = None
    /\ size = None
    /\ result = NoResult
    /\ log = <<>>
    /\ destroys = 0
    /\ queue = <<>>
    /\ sent = 0
    /\ ops = 0
    /\ received = <<>>
    /\ delivered = <<>>
    /\ event = None
    /\ exit = FALSE

SpecNew == InitNew /\ [][NextNew]_vars

\* the number a u32 below 2^31 stands for
Nat32(x) == x.hi * U16 + x.lo

\* w is l * n / d rounded to the nearest integer, halves upwards (l, n >= 0)
IsRounded(w, l, sf) ==
    /\ 2 * sf.d * w - sf.d <= 2 * l * sf.n
    /\ 2 * l * sf.n < 2 * sf.d * w + sf.d

\* C14: after a successful creation and before any resize event, size() is
\* the configured size in physical units: each dimension of a Logical size
\* times the scale factor of this creation, rounded; a Physical size as
\* configured, whatever the scale factor.
C14_InitialSize ==
    pc = "ready" /\ received = <<>> =>
        LET s == SizeFn(size).ret.val
            c == config.size.val
        IN  IF config.size.tag = "Logical"
            THEN /\ IsRounded(Nat32(s.width), c.width, scale_factor)
                 /\ IsRounded(Nat32(s.height), c.height, scale_factor)
            ELSE s = c

\* a 101x33 logical size was created at scale 1.5 and both halves rounded up
C14_Witness ==
    /\ pc = "ready"
    /\ config.size = Logical(LogicalSize(101, 33))
    /\ scale_factor = Frac(144, 96)
    /\ SizeFn(size).ret.val = PhysicalSize(U32Of(152), U32Of(50))

\* C15: when the screen number obtained at connection designates no screen
\* of the server setup, Window::new returns a creation-time error, as it does
\* for every other step that fails, instead of aborting.
C15_ScreenNotFound ==
    pc \notin {"load", "connect", "screen"} /\ env.screen_num >= Len(env.roots)
        => pc = "failed" /\ result.tag = "Err"

\* C16: the scale factor resolved at creation is strictly positive, whatever
\* the resource database holds for Xft.dpi and whatever the screen reports.
C16_ScalePositive ==
    scale_factor # None => scale_factor.n > 0 /\ scale_factor.d > 0

\* C17: when the resource database holds a DPI preference the scale factor
\* is dpi / 96, whatever the screen reports; the factor computed from the
\* screen dimensions is the result only when there is no preference.
C17_PreferenceFirst ==
    scale_factor # None =>
        IF env.xft_dpi.tag = "Some"
        THEN scale_factor.n * 96 = env.xft_dpi.val * scale_factor.d
        ELSE scale_factor = ScreenScale(Screen)

\* a preference of 144 resolved to 1.5 on a screen whose dimensions give 2.0
C17_Witness ==
    /\ pc = "ready"
    /\ env.xft_dpi = Some(144)
    /\ Screen = HiDpi
    /\ ScreenScale(Screen) = Frac(24, 12)
    /\ 2 * scale_factor.n = 3 * scale_factor.d

----------------------------------------------------------------------------
(* The conversions of src/src/dpi.rs on their own: logical to physical and back *)

PhysicalPosition(x, y) == [x |-> x, y |-> y]
LogicalPosition(x, y) == [x |-> x, y |-> y]

\* PhysicalPosition::from_logical (lines 42-47)
PhysicalPositionFromLogical(p, sf) ==
    PhysicalPosition(FromLogicalDim(p.x, sf), FromLogicalDim(p.y, sf))

\* LogicalPosition::to_physical (lines 92-94)
LogicalPositionToPhysical(p, sf) == PhysicalPositionFromLogical(p, sf)

\* ToLogicalDim multiplying by the scale factor instead of dividing
ToLogicalDimTimes(x, sf) == Frac(Nat32(x) * sf.n, sf.d)

\* `self.width as f32 / scale_factor` (lines 50-51, 73-74), as a fraction
ToLogicalDim(x, sf) == Frac(Nat32(x) * sf.d, sf.n)

\* PhysicalSize::to_logical (lines 72-77)
PhysicalSizeToLogical(s, sf) ==
    LogicalSize(ToLogicalDim(s.width, sf), ToLogicalDim(s.height, sf))

\* PhysicalPosition::to_logical (lines 49-54)
PhysicalPositionToLogical(p, sf) ==
    LogicalPosition(ToLogicalDim(p.x, sf), ToLogicalDim(p.y, sf))

\* non-negative logical coordinates, up to 2^21
LogicalValues == {0, 1, 2, 3, 33, 101, 750, 2097152}

\* positive scale factors, from a quarter to twenty
PositiveScales ==
    {Frac(1, 4), Frac(1, 3), Frac(1, 2), Frac(1, 1), Frac(13, 12), Frac(3, 2),
     Frac(2, 1), Frac(10, 3), Frac(20, 1)}

\* a logical size or position and a scale factor are given
InitRound ==
    /\ pc = "logical_given"
    /\ \E a \in LogicalValues, b \in LogicalValues :
            \/ config = [kind |-> "Size", val |-> LogicalSize(a, b)]
            \/ config = [kind |-> "Position", val |-> LogicalPosition(a, b)]
    /\ \E sf \in PositiveScales : scale_factor = sf
    /\ env = None
    /\ handle = FALSE
    /\ window = None
    /\ atoms = None
    /\ size = None
    /\ result = NoResult
    /\ log = <<>>
    /\ destroys = 0
    /\ queue = <<>>
    /\ sent = 0
    /\ ops = 0
    /\ received = <<>>
    /\ delivered = <<>>
    /\ event = None
    /\ exit = FALSE

\* LogicalSize::to_physical / LogicalPosition::to_physical
ToPhysical ==
    /\ pc = "logical_given"
    /\ size' = IF config.kind = "Size"
               THEN LogicalSizeToPhysical(config.val, scale_factor)
               ELSE LogicalPositionToPhysical(config.val, scale_factor)
    /\ pc' = "physical"
    /\ UNCHANGED <<config, env, handle, window, scale_factor, atoms, result, log,
                   destroys, ops, loopVars>>

\* PhysicalSize::to_logical / PhysicalPosition::to_logical
ToLogical ==
    /\ pc = "physical"
    /\ result' = IF config.kind = "Size"
                 THEN PhysicalSizeToLogical(size, scale_factor)
                 ELSE PhysicalPositionToLogical(size, scale_factor)
    /\ pc' = "logical_again"
    /\ UNCHANGED <<config, env, handle, winVars, log, destroys, ops, loopVars>>

NextRound == ToPhysical \/ ToLogical

SpecRound == InitRound /\ [][NextRound]_vars

\* the two coordinates of a size or a position
Coordinates(v) ==
    IF config.kind = "Size" THEN <<v.width, v.height>> ELSE <<v.x, v.y>>

\* the fraction q is not negative and differs from the integer v by at most 1
WithinOne(q, v) ==
    /\ q.n >= 0 /\ q.d > 0
    /\ q.n - v * q.d <= q.d
    /\ v * q.d - q.n <= q.d

\* C18 as stated: for every non-negative logical size or position v and every
\* positive scale factor s, to_logical(to_physical(v, s), s) is not negative
\* and differs from v by at most one unit in each dimension.
C18_RoundTripAnyScale ==
    pc = "logical_again" =>
        \A i \in 1..2 : WithinOne(Coordinates(result)[i], Coordinates(config.val)[i])

\* C18, amended: the same for scale factors of at least 1 (and coordinates
\* up to 2^21).
C18_RoundTripFromOne ==
    pc = "logical_again" /\ scale_factor.n >= scale_factor.d =>
        \A i \in 1..2 : WithinOne(Coordinates(result)[i], Coordinates(config.val)[i])

\* 101x33 went to 152x50 at scale 1.5 and came back as 101.33x33.33
C18_Witness ==
    /\ pc = "logical_again"
    /\ config = [kind |-> "Size", val |-> LogicalSize(101, 33)]
    /\ scale_factor = Frac(3, 2)
    /\ size = PhysicalSize(U32Of(152), U32Of(50))
    /\ result = LogicalSize(Frac(304, 3), Frac(100, 3))

----------------------------------------------------------------------------
(* The order of the requests of a creation *)

\* where in the log the calls of an operation are
Occurrences(op) == {i \in 1..Len(log) : log[i].op = op}
Once(op) == Cardinality(Occurrences(op)) = 1
Never(op) == Occurrences(op) = {}
Before(a, b) == \A i \in Occurrences(a), j \in Occurrences(b) : i < j

\* C19: a successful creation has resolved the atoms, resolved the scale
\* factor (once, before create-window), generated the id, created the window,
\* set the title, registered the close protocol, sent the size hints, mapped
\* the window and flushed, in this order; the size hints are sent if and only
\* if the config is not resizable, the map request if and only if it is
\* visible, and the flush once, after every other request.
C19_RequestOrder ==
    pc = "ready" /\ ops = 0 =>
        /\ \A op \in {"intern_atoms", "intern_atoms_reply", "resource_manager",
                        "generate_id", "create_window", "change_property8",
                        "change_property32", "flush"} : Once(op)
        /\ Before("intern_atoms", "intern_atoms_reply")
        /\ Before("intern_atoms_reply", "resource_manager")
        /\ Before("resource_manager", "generate_id")
        /\ Before("generate_id", "create_window")
        /\ Before("create_window", "change_property8")
        /\ Before("change_property8", "change_property32")
        /\ IF config.resizable THEN Never("set_normal_hints")
           ELSE Once("set_normal_hints")
        /\ IF config.visible THEN Once("map_window") ELSE Never("map_window")
        /\ Before("change_property32", "set_normal_hints")
        /\ Before("change_property32", "map_window")
        /\ Before("set_normal_hints", "map_window")
        /\ Occurrences("flush") = {Len(log)}
        /\ \A i \in 1..Len(log) : log[i].ok

\* a non-resizable, visible window was created: hints, then map, then flush
C19_Witness ==
    /\ pc = "ready"
    /\ ~config.resizable /\ config.visible
    /\ Len(log) = 12
    /\ log[10].op = "set_normal_hints"
    /\ log[11].op = "map_window"
    /\ log[12].op = "flush"

----------------------------------------------------------------------------
(* set_resizable and the cached size *)

\* size hints with minimum and maximum both w x h, as the request carries them
HintsOf(w, h) ==
    [window |-> window, min_size |-> Some(<<w, h>>), max_size |-> Some(<<w, h>>)]

\* C20: set_resizable(false) sends size hints whose minimum and maximum are
\* the cached size at the time of the call, which is the size of the latest
\* resize event the loop processed and the size at creation only when there
\* was none; set_resizable(true) sends hints with minimum and maximum
\* cleared; neither changes the cached size.
C20_HintsFromCachedSize ==
    [][\A r \in BOOLEAN : SetResizableWith(r) =>
        LET latest == LastResize(received, CreatedSize) IN
        /\ log'[1].op = "set_normal_hints"
        /\ log'[1].arg =
                IF r THEN [window |-> window, min_size |-> None, max_size |-> None]
                ELSE HintsOf(Nat32(latest.width), Nat32(latest.height))
        /\ size' = size
        /\ size' = latest]_vars

\* set_resizable(false) was called after the loop processed a resize to
\* 400x300 of a window created 1125x750, and sent 400x300 as both bounds
C20_Witness ==
    /\ Accepting
    /\ ops = 2
    /\ CreatedSize = PhysicalSize(U32Of(1125), U32Of(750))
    /\ received # <<>>
    /\ received[Len(received)] = [type |-> "ResizeRequest", width |-> 400, height |-> 300]
    /\ log = <<Call("set_normal_hints", TRUE, HintsOf(400, 300)), Call("flush", TRUE, Unit)>>
    /\ result = Ok(Unit)
    /\ size = PhysicalSize(U32Of(400), U32Of(300))

----------------------------------------------------------------------------
(* The scale factor resolution on its own, over a range of screens *)

\* the dimensions a screen reports (u16 fields of xproto::Screen)
PixelWidths == {0, 800, 1920, 3840}
PixelHeights == {0, 600, 1080, 2160}
MillimeterWidths == {0, 10, 508, 509}
MillimeterHeights == {0, 10, 285}

\* Window::new has loaded libxcb, connected and fetched the atoms
InitScale ==
    /\ pc = "scale"
    /\ config = FixedConfig
    /\ \E wpx \in PixelWidths, hpx \in PixelHeights,
          wmm \in MillimeterWidths, hmm \in MillimeterHeights,
          dpi \in {None, Some(144)} :
            env = Env(dpi, 0, <<ScreenInfo(wpx, hpx, wmm, hmm, 1001)>>)
    /\ handle = FALSE
    /\ window = None
    /\ scale_factor = None
    /\ atoms = Atoms
    /\ size = None
    /\ result = NoResult
    /\ log = <<Call("load_libxcb", TRUE, Unit), Call("connect", TRUE, Unit),
               Call("intern_atoms", TRUE, [names |-> <<"WM_PROTOCOLS", "WM_DELETE_WINDOW">>]),
               Call("intern_atoms_reply", TRUE, Unit)>>
    /\ destroys = 0
    /\ queue = <<>>
    /\ sent = 0
    /\ ops = 0
    /\ received = <<>>
    /\ delivered = <<>>
    /\ event = None
    /\ exit = FALSE

NextScale == ResolveScale

SpecScale == InitScale /\ [][NextScale]_vars

\* k - 1/2 <= (a / b) * sqrt(px / mm) for the pixel and millimetre products
\* of a screen with positive dimensions: (b (2k - 1))^2 mm <= (2a)^2 px
HalfBelow(k, a, b, screen) ==
    LeqFrac(b * (2 * k - 1) * screen.width_in_millimeters,
            2 * a * screen.width_in_pixels,
            2 * a * screen.height_in_pixels,
            b * (2 * k - 1) * screen.height_in_millimeters)

\* sf is (a / b) * sqrt(px / mm) rounded to the nearest integer, over 12,
\* floored at 1.0 and replaced by 1.0 when it exceeds 20.0; a screen with a
\* zero dimension gives 1.0
QuantizedFrom(sf, a, b, screen) ==
    /\ sf.d = 12
    /\ 12 <= sf.n /\ sf.n <= 240
    /\ IF \/ screen.width_in_millimeters = 0 \/ screen.height_in_millimeters = 0
          \/ screen.width_in_pixels = 0 \/ screen.height_in_pixels = 0
       THEN sf.n = 12
       ELSE IF sf.n > 12
            THEN HalfBelow(sf.n, a, b, screen) /\ ~HalfBelow(sf.n + 1, a, b, screen)
            ELSE ~HalfBelow(13, a, b, screen) \/ HalfBelow(241, a, b, screen)

\* C21 as stated: without a DPI preference the scale factor is
\* round(raw * 12) / 12 with raw = ppmm * (12.0 * 25.4 / 96.0), that is
\* ppmm * 38.1 rounded, over 12; floored at 1.0, 1.0 when above 20.0.
C21_RoundedTimesTwelve ==
    scale_factor # None /\ env.xft_dpi = None =>
        QuantizedFrom(scale_factor, 381, 10, Screen)

\* C21, amended: without a DPI preference the scale factor is round(raw) / 12
\* with raw = ppmm * (12.0 * 25.4 / 96.0), that is ppmm * 3.175 rounded, over
\* 12; floored at 1.0, 1.0 when above 20.0, and so within [1.0, 20.0].
C21_RoundedTwelfths ==
    scale_factor # None /\ env.xft_dpi = None =>
        QuantizedFrom(scale_factor, 127, 40, Screen)

\* 3840x2160 pixels over 509x285 mm resolved to 24/12 = 2.0
C21_Witness ==
    /\ pc = "generate_id"
    /\ env.xft_dpi = None
    /\ Screen = ScreenInfo(3840, 2160, 509, 285, 1001)
    /\ scale_factor = Frac(24, 12)

----------------------------------------------------------------------------
(* The event loop on one button event *)

\* event_loop has been entered and one button event is pending
InitButtonLoop ==
    /\ pc = "loop_wait"
    /\ config = DefaultConfig
    /\ env = Env(None, 0, <<Monitor>>)
    /\ handle = TRUE
    /\ window = env.id
    /\ scale_factor = ResolveScaleFactor(env.xft_dpi, Monitor)
    /\ atoms = Atoms
    /\ size = InitialSize(config, scale_factor)
    /\ result = NoResult
    /\ log = <<>>
    /\ destroys = 0
    /\ \E x11 \in ButtonEvents : queue = <<x11>>
    /\ sent = 1
    /\ ops = 1
    /\ received = <<>>
    /\ delivered = <<>>
    /\ event = None
    /\ exit = FALSE

NextButtonLoop == WaitForEvent \/ HandlerCall \/ CheckExit

SpecButtonLoop == InitButtonLoop /\ [][NextButtonLoop]_vars

\* C22: of the 256 button codes and two states, only a release of code 4, 5,
\* 6 or 7 translates to no event; every other button event translates to one
\* event, which the handler is called with once; a press or release of code 0
\* is MouseInput with Other(0) and its state.
C22_TotalButtons ==
    received # <<>> =>
        LET code == received[1].detail
            state == ButtonStateOf(received[1])
            dropped == state = Released /\ code \in 4..7
        IN  /\ event.tag = IF dropped THEN "None" ELSE "Some"
            /\ Len(delivered) = IF dropped \/ pc = "loop_call" THEN 0 ELSE 1
            /\ \A i \in 1..Len(delivered) : delivered[i].event = event.val
            /\ code = 0 =>
                    event = Some([tag |-> "MouseInput",
                                  button |-> [tag |-> "Other", code |-> 0],
                                  state |-> state])

\* the handler was called with the release of button code 0
C22_Witness ==
    /\ received = <<[type |-> "ButtonRelease", detail |-> 0]>>
    /\ Len(delivered) = 1
    /\ delivered[1].event =
            [tag |-> "MouseInput", button |-> [tag |-> "Other", code |-> 0],
             state |-> Released]

----------------------------------------------------------------------------
(* The dimensions of the create-window request *)

\* C23: after a successful creation the width and height the create-window
\* request carried are the width and height of the cached size that size()
\* returns, for every configured size, those above 65535 included.
C23_RequestMatchesCache ==
    pc = "ready" /\ ops = 0 =>
        \A i \in Occurrences("create_window") :
            /\ log[i].arg.width = Nat32(SizeFn(size).ret.val.width)
            /\ log[i].arg.height = Nat32(SizeFn(size).ret.val.height)

====
